---- MODULE Spec2Model ----
(***************************************************************************)
(* RAGMaster job queue.  Two versions of the queue engine live in the      *)
(* repository:                                                             *)
(*   - the sequential engine, src/backend/app.js (one file at a time,      *)
(*     recovery on start, stuck-state detection in GET /api/queue,         *)
(*     remove / force-unlock endpoints): specification Spec;               *)
(*     SpecAuto is the same engine driven by uploads and status queries    *)
(*     only, with the fairness of Node's scheduling;                       *)
(*   - the batch engine, listed in src/AUTO_PROCESSING_FIX.md lines        *)
(*     163-993 (CONCURRENT_FILES files at a time): specification           *)
(*     SpecBatch.                                                          *)
(* The batch engine sends every file through the gating pipeline (self     *)
(* evaluation in two passes, Gate, Escalator, conversion; lines 238-720):  *)
(* SpecGate applies the Gate and the Escalator to given metrics,           *)
(* SpecPipeline follows the pipeline of every file call by call.           *)
(* SpecCapacity is the upload handler of src/backend/app.js with the       *)
(* limits of the queue on sized files, SpecSplice the partial rewrite of   *)
(* the Escalator, revision by revision, on a text of a few characters.     *)
(* Node runs every handler and every continuation of an async function to  *)
(* its next await without interleaving, so one action is one such          *)
(* synchronous stretch.                                                    *)
(***************************************************************************)
EXTENDS Integers, Sequences, FiniteSets, TLC

VARIABLES
    items,                \* the queue item objects still referenced: id -> record
    fileQueue,            \* the fileQueue array: sequence of item ids
    isProcessing,         \* the run lock
    processingCancelled,  \* the cooperative cancellation flag
    runs,                 \* the processQueue invocations suspended at an await
    scheduled,            \* whether a setImmediate(processQueue) callback waits
    nextId,               \* ids handed out so far + 1
    pipe,                 \* the processDocumentPipeline invocations: id -> record
    openaiMetrics,        \* the call counters of callChat
    gate,                 \* a call of gateDecision / escalate on given metrics
    ev                    \* what the last step did (history, read by the properties)

vars == <<items, fileQueue, isProcessing, processingCancelled, runs, scheduled, nextId,
          pipe, openaiMetrics, gate, ev>>

pipeVars == <<pipe, openaiMetrics, gate>>

----------------------------------------------------------------------------
(* Bounds of the model *)

MaxFiles == 2       \* files ever uploaded, sequential engine
MaxBatchFiles == 6  \* files ever uploaded, batch engine
MaxRuns == 2        \* processQueue invocations suspended at the same time
MaxChunks == 10     \* chunks of a self evaluation given to the Gate and the Escalator
MaxDocs == 2        \* files ever uploaded, gating pipeline
PipeChunks == 4     \* chunks of a self evaluation in the gating pipeline
MaxCapFiles == 60   \* files ever uploaded, queue capacity
SpliceChunks == 7   \* chunks of a document the Escalator rewrites in part
MaxSpan == 2        \* characters of a chunk of such a document
MaxRevision == 3    \* characters of a rewritten span

(* Program constants *)

MAX_FILES == 50
CONCURRENT_FILES == 5
MAX_TOTAL_SIZE == 10 * 1024 * 1024
MAX_FILE_SIZE == 1 * 1024 * 1024

----------------------------------------------------------------------------
(* Values *)

NULL == "null"

\* No pipeline has made a gateway call yet.
NoPipe == <<>>

\* gateDecision is not being called on its own.
NoGate == [pc |-> "none"]
SET == "set"
Statuses == {"pending", "processing", "completed", "failed"}

Range(s) == {s[k] : k \in 1..Len(s)}

RemoveAt(s, k) == [j \in 1..(Len(s) - 1) |-> IF j < k THEN s[j] ELSE s[j + 1]]

\* createQueueItem: the object a validated upload pushes on fileQueue.  The
\* filename, the content and the counts of the metrics record are not
\* modelled.
createQueueItem ==
    [status |-> "pending",
     startedAt |-> NULL,
     completedAt |-> NULL,
     result |-> NULL,
     error |-> NULL,
     gating |-> NULL,
     metrics |-> [processingTimeMs |-> 0]]

CountStatus(its, q, s) == Cardinality({k \in 1..Len(q) : its[q[k]].status = s})

\* The stats object of GET /api/queue.
Stats(its, q, lock) ==
    [totalFiles |-> Len(q),
     pending |-> CountStatus(its, q, "pending"),
     processing |-> CountStatus(its, q, "processing"),
     completed |-> CountStatus(its, q, "completed"),
     failed |-> CountStatus(its, q, "failed"),
     isProcessing |-> lock]

\* The files array of a status response: app.js 897-906 (the batch engine adds
\* gating, AUTO_PROCESSING_FIX.md 857-868).
Files(its, q) ==
    [k \in 1..Len(q) |->
        [id |-> q[k], status |-> its[q[k]].status, metrics |-> its[q[k]].metrics,
         error |-> its[q[k]].error, completedAt |-> its[q[k]].completedAt,
         gating |-> its[q[k]].gating]]

\* The body of a download response: app.js 931-937.
Output(it) == [processedAt |-> it.completedAt, result |-> it.result]

NoOutput == [processedAt |-> NULL, result |-> NULL]

NoStats == [totalFiles |-> 0, pending |-> 0, processing |-> 0, completed |-> 0,
            failed |-> 0, isProcessing |-> FALSE]

\* The history record: op names the handler or continuation that ran, id its
\* item argument (0: none), resp its answer; admitted / ended tell whether a run
\* passed admission / released the lock in the step; recovered and started are
\* the items the step reset to pending and handed to processSingleFile;
\* byCancelled tells whether the run that started them had been asked to cancel.
Event(op, id, resp) ==
    [op |-> op, id |-> id, resp |-> resp, admitted |-> FALSE, ended |-> FALSE,
     recovered |-> {}, started |-> {}, byCancelled |-> FALSE, stats |-> NoStats,
     files |-> <<>>, output |-> NoOutput]

----------------------------------------------------------------------------
(* processSingleFile, sequential engine (src/backend/app.js 516-583) *)

\* Lines 521-522: the synchronous start of processSingleFile.
StartItem(it) == [it EXCEPT !.status = "processing", !.startedAt = SET]

\* Lines 524-557: the pipeline awaits convertToMarkdown (files that are not
\* Markdown) and then processDocumentWithLLM.  The return of the first changes
\* only the content, which is not modelled, so the awaits of one pipeline are one
\* suspension here, ended by a return (Completed) or by a throw of either call
\* (Failed).

\* Lines 560-570: processDocumentWithLLM returned.
CompletedAsDone(it) ==
    [it EXCEPT !.result = "result", !.status = "done", !.completedAt = SET,
               !.metrics = [processingTimeMs |-> 1]]

Completed(it) ==
    [it EXCEPT !.result = "result",
               !.status = "completed",
               !.completedAt = SET,
               !.metrics = [processingTimeMs |-> 1]]

\* Lines 575-582: the catch block.
FailedNoTimestamp(it) ==
    [it EXCEPT !.status = "failed", !.error = "error",
               !.metrics = [it.metrics EXCEPT !.processingTimeMs = 1]]

FailedNoError(it) ==
    [it EXCEPT !.status = "failed", !.completedAt = SET,
               !.metrics = [it.metrics EXCEPT !.processingTimeMs = 1]]

Failed(it) ==
    [it EXCEPT !.status = "failed",
               !.error = "error",
               !.completedAt = SET,
               !.metrics = [it.metrics EXCEPT !.processingTimeMs = 1]]

----------------------------------------------------------------------------
(* processQueue, sequential engine (src/backend/app.js 589-652) *)

\* A suspended processQueue invocation.  pending is the part of its
\* pendingFiles array the for loop has not reached yet (references to item
\* objects, kept whatever happens to fileQueue), cur the file it handed to
\* processSingleFile and awaits (0: none), pc the await it is suspended at
\* ("item": line 629, "cooldown": line 637).  cancelReq (history) tells whether
\* POST /api/cancel-queue was called while the run was active, since (history)
\* the number the next upload was to get when the run was admitted: the files
\* numbered from it on were enqueued after the admission, cancelledBefore
\* (history) the cancellation flag the admission found.
NewRun(pend) ==
    [pc |-> "start", pending |-> pend, cur |-> 0, cancelReq |-> FALSE,
     since |-> nextId, cancelledBefore |-> processingCancelled]

Done(r) == [r EXCEPT !.pc = "done", !.pending = <<>>, !.cur = 0]

\* The item objects still referenced by fileQueue or by a suspended run; the
\* others are garbage.
Referenced(q, rs) ==
    Range(q) \cup UNION {Range(rs[k].pending) \cup ({rs[k].cur} \ {0}) : k \in 1..Len(rs)}

Heap(its, q, rs) == [id \in DOMAIN its \cap Referenced(q, rs) |-> its[id]]

\* Line 604: the items of the queue left in status processing.
stuckFiles(its, q) == {id \in Range(q) : its[id].status = "processing"}

\* Lines 610-613: each stuck file back to pending.
RecoverFailedToo(its, q) ==
    [id \in DOMAIN its |->
        IF id \in Range(q) /\ its[id].status \in {"processing", "failed"}
        THEN [its[id] EXCEPT !.status = "pending", !.startedAt = NULL]
        ELSE its[id]]

Recover(its, q) ==
    [id \in DOMAIN its |->
        IF id \in stuckFiles(its, q)
        THEN [its[id] EXCEPT !.status = "pending", !.startedAt = NULL]
        ELSE its[id]]

\* Line 616.
pendingFiles(its, q) == SelectSeq(q, LAMBDA id : its[id].status = "pending")

\* Lines 591-594: the admission test of processQueue.
AdmitAlways(lock) == TRUE

Admitted(lock) == ~lock

\* Line 598: the cancellation flag after the admission of a run.
ResetCancelledKept(cancelled) == cancelled

ResetCancelled(cancelled) == FALSE

\* Lines 647-651: the finally block, run when the invocation ends.
FinallyKeepsLock(lock, ended) == lock

Finally(lock, ended) == IF ended THEN FALSE ELSE lock

\* Lines 623-629: the head of the for loop, from the run's position: the loop
\* is over, or the run is cancelled, or the next file of pendingFiles is handed
\* to processSingleFile, whatever its status is by now.
LoopHead(r, its, cancelled) ==
    IF r.pending = <<>> \/ cancelled
    THEN [items |-> its, run |-> Done(r), started |-> {}]
    ELSE LET id == Head(r.pending) IN
         [items |-> [its EXCEPT ![id] = StartItem(its[id])],
          run |-> [r EXCEPT !.pc = "item", !.pending = Tail(r.pending), !.cur = id],
          started |-> {id}]

\* Lines 631-638: after processSingleFile returned: cool down while fileQueue
\* holds a pending file, else go on with the loop.
AfterItem(r, its, q, cancelled) ==
    IF CountStatus(its, q, "pending") > 0
    THEN [items |-> its, run |-> [r EXCEPT !.pc = "cooldown", !.cur = 0],
          started |-> {}]
    ELSE LoopHead(r, its, cancelled)

\* The suspended invocations after run k moved to r (dropped when it ended).
PutRun(k, r) == IF r.pc = "done" THEN RemoveAt(runs, k) ELSE [runs EXCEPT ![k] = r]

\* processQueue() called by op: lines 589-629, up to the first await.
processQueue(op, okResp) ==
    IF ~Admitted(isProcessing)
    THEN /\ ev' = Event(op, 0, "alreadyProcessing")
         /\ UNCHANGED <<items, fileQueue, isProcessing, processingCancelled, runs>>
    ELSE LET stuck == stuckFiles(items, fileQueue)
             its1 == Recover(items, fileQueue)
             flag == ResetCancelled(processingCancelled)
             res == LoopHead(NewRun(pendingFiles(its1, fileQueue)), its1, flag)
             ended == res.run.pc = "done"
         IN /\ ended \/ Len(runs) < MaxRuns
            /\ processingCancelled' = flag
            /\ runs' = IF ended THEN runs ELSE Append(runs, res.run)
            /\ items' = Heap(res.items, fileQueue, runs')
            /\ isProcessing' = Finally(TRUE, ended)
            /\ ev' = [Event(op, 0, okResp) EXCEPT !.admitted = TRUE, !.ended = ended,
                         !.recovered = stuck, !.started = res.started]
            /\ UNCHANGED fileQueue

\* The gateway call an item pipeline of run k awaits returns (ok) or throws:
\* processSingleFile lines 534-582, then processQueue lines 631-651.
ItemStep(k, ok) ==
    /\ k \in 1..Len(runs)
    /\ runs[k].pc = "item"
    /\ LET r == runs[k]
           id == r.cur
           its1 == [items EXCEPT ![id] = IF ok THEN Completed(items[id])
                                               ELSE Failed(items[id])]
           res == AfterItem(r, its1, fileQueue, processingCancelled)
           ended == res.run.pc = "done"
       IN /\ runs' = PutRun(k, res.run)
          /\ items' = Heap(res.items, fileQueue, runs')
          /\ isProcessing' = Finally(isProcessing, ended)
          /\ ev' = [Event(IF ok THEN "itemCompleted" ELSE "itemFailed", id, "none")
                       EXCEPT !.ended = ended, !.started = res.started,
                              !.byCancelled = r.cancelReq /\ res.started # {}]
    /\ UNCHANGED <<fileQueue, processingCancelled, scheduled, nextId>>
    /\ UNCHANGED pipeVars

\* The cooldown timer of run k fires: line 637, then the loop head.  Node
\* runs the setImmediate callbacks that wait before any timer.
CooldownEnd(k) ==
    /\ ~scheduled
    /\ k \in 1..Len(runs)
    /\ runs[k].pc = "cooldown"
    /\ LET r == runs[k]
           res == LoopHead(r, items, processingCancelled)
           ended == res.run.pc = "done"
       IN /\ runs' = PutRun(k, res.run)
          /\ items' = Heap(res.items, fileQueue, runs')
          /\ isProcessing' = Finally(isProcessing, ended)
          /\ ev' = [Event("cooldownEnd", 0, "none")
                       EXCEPT !.ended = ended, !.started = res.started,
                              !.byCancelled = r.cancelReq /\ res.started # {}]
    /\ UNCHANGED <<fileQueue, processingCancelled, scheduled, nextId>>
    /\ UNCHANGED pipeVars

----------------------------------------------------------------------------
(* The endpoints of the sequential engine (src/backend/app.js 661-1029) *)

\* POST /api/upload with one valid file: lines 661-797.
Upload ==
    /\ nextId <= MaxFiles
    /\ Len(fileQueue) + 1 <= MAX_FILES
    /\ items' = (nextId :> createQueueItem) @@ items
    /\ fileQueue' = Append(fileQueue, nextId)
    /\ nextId' = nextId + 1
    /\ scheduled' = (scheduled \/ ~isProcessing)
    /\ ev' = Event("upload", nextId, "added")
    /\ UNCHANGED <<isProcessing, processingCancelled, runs>>
    /\ UNCHANGED pipeVars

\* The setImmediate callbacks of the upload handler (lines 780-787) and of the
\* status handler (lines 887-893) run.  Node runs the callbacks that wait in
\* its check phase one after the other, with no handler and no continuation
\* in between: the first is admitted or refused, and the following ones find
\* the lock held (or again no pending file), so they are one call here.
AutoStart ==
    /\ scheduled
    /\ scheduled' = FALSE
    /\ processQueue("autoStart", "admitted")
    /\ UNCHANGED nextId
    /\ UNCHANGED pipeVars

\* POST /api/process-queue: lines 836-859.
StartRun ==
    /\ IF CountStatus(items, fileQueue, "pending") = 0
       THEN /\ ev' = Event("startRun", 0, "noPending")
            /\ UNCHANGED <<items, fileQueue, isProcessing, processingCancelled, runs>>
       ELSE IF isProcessing
       THEN /\ ev' = Event("startRun", 0, "alreadyProcessing")
            /\ UNCHANGED <<items, fileQueue, isProcessing, processingCancelled, runs>>
       ELSE processQueue("startRun", "started")
    /\ UNCHANGED <<scheduled, nextId>>
    /\ UNCHANGED pipeVars

\* Line 877: the stuck-state test of the status handler.
StuckStateUnlocked(st) == st.processing = 0 /\ st.pending > 0

StuckStateAnyQueue(st) == st.isProcessing /\ st.processing = 0

StuckState(st) == st.isProcessing /\ st.processing = 0 /\ st.pending > 0

\* GET /api/queue: lines 864-909.
GetStatus ==
    LET st == Stats(items, fileQueue, isProcessing) IN
    /\ IF StuckState(st)
       THEN /\ isProcessing' = FALSE
            /\ scheduled' = TRUE
            /\ ev' = [Event("getStatus", 0, "recovered")
                         EXCEPT !.stats = [st EXCEPT !.isProcessing = FALSE],
                                !.files = Files(items, fileQueue)]
       ELSE /\ ev' = [Event("getStatus", 0, "ok")
                         EXCEPT !.stats = st, !.files = Files(items, fileQueue)]
            /\ UNCHANGED <<isProcessing, scheduled>>
    /\ UNCHANGED <<items, fileQueue, processingCancelled, runs, nextId>>
    /\ UNCHANGED pipeVars

\* POST /api/cancel-queue: lines 961-967.
CancelRun ==
    /\ processingCancelled' = TRUE
    /\ runs' = [k \in 1..Len(runs) |-> [runs[k] EXCEPT !.cancelReq = TRUE]]
    /\ ev' = Event("cancelRun", 0, "ok")
    /\ UNCHANGED <<items, fileQueue, isProcessing, scheduled, nextId>>
    /\ UNCHANGED pipeVars

\* POST /api/clear-queue: lines 972-982.
ClearAllButProcessing ==
    /\ fileQueue' = SelectSeq(fileQueue, LAMBDA id : items[id].status = "processing")
    /\ items' = Heap(items, fileQueue', runs)
    /\ isProcessing' = FALSE
    /\ processingCancelled' = FALSE
    /\ ev' = Event("clearAll", 0, "ok")
    /\ UNCHANGED <<runs, scheduled, nextId>>
    /\ UNCHANGED pipeVars

ClearAll ==
    /\ fileQueue' = <<>>
    /\ items' = Heap(items, fileQueue', runs)
    /\ isProcessing' = FALSE
    /\ processingCancelled' = FALSE
    /\ ev' = Event("clearAll", 0, "ok")
    /\ UNCHANGED <<runs, scheduled, nextId>>
    /\ UNCHANGED pipeVars

\* POST /api/debug/reset-processing: lines 987-1006.
ForceUnlockIfIdle ==
    /\ isProcessing' = (isProcessing /\ runs # <<>>)
    /\ processingCancelled' = FALSE
    /\ ev' = [Event("forceUnlock", 0, "ok")
                 EXCEPT !.stats = Stats(items, fileQueue, FALSE)]
    /\ UNCHANGED <<items, fileQueue, runs, scheduled, nextId>>
    /\ UNCHANGED pipeVars

ForceUnlock ==
    /\ isProcessing' = FALSE
    /\ processingCancelled' = FALSE
    /\ ev' = [Event("forceUnlock", 0, "ok")
                 EXCEPT !.stats = Stats(items, fileQueue, FALSE)]
    /\ UNCHANGED <<items, fileQueue, runs, scheduled, nextId>>
    /\ UNCHANGED pipeVars

\* Lines 1021-1025: a file that is being processed is not removed.
RemovableAlways(it) == TRUE

Removable(it) == it.status # "processing"

\* DELETE /api/queue/:fileId: lines 1011-1029.
RemoveItem(id) ==
    /\ IF id \notin Range(fileQueue)
       THEN /\ ev' = Event("removeItem", id, "notFound")
            /\ UNCHANGED <<fileQueue, items>>
       ELSE IF ~Removable(items[id])
       THEN /\ ev' = Event("removeItem", id, "isProcessing")
            /\ UNCHANGED <<fileQueue, items>>
       ELSE /\ fileQueue' = SelectSeq(fileQueue, LAMBDA x : x # id)
            /\ items' = Heap(items, fileQueue', runs)
            /\ ev' = Event("removeItem", id, "removed")
    /\ UNCHANGED <<isProcessing, processingCancelled, runs, scheduled, nextId>>
    /\ UNCHANGED pipeVars

\* Line 922: only a completed file is downloaded.
DownloadableTerminal(it) == it.status \in {"completed", "failed"}

Downloadable(it) == it.status = "completed"

\* GET /api/download/:fileId: lines 914-956.
Download(id) ==
    /\ IF id \notin Range(fileQueue)
       THEN ev' = Event("download", id, "notFound")
       ELSE IF ~Downloadable(items[id])
       THEN ev' = Event("download", id, "notCompleted")
       ELSE ev' = [Event("download", id, "ok") EXCEPT !.output = Output(items[id])]
    /\ UNCHANGED <<items, fileQueue, isProcessing, processingCancelled, runs,
                   scheduled, nextId>>
    /\ UNCHANGED pipeVars

----------------------------------------------------------------------------
(* Specification of the sequential engine *)

InitQueue ==
    /\ items = <<>>
    /\ fileQueue = <<>>
    /\ isProcessing = FALSE
    /\ processingCancelled = FALSE
    /\ runs = <<>>
    /\ scheduled = FALSE
    /\ nextId = 1
    /\ pipe = NoPipe
    /\ openaiMetrics = [totalCalls |-> 0]
    /\ ev = Event("init", 0, "none")

Init == InitQueue /\ gate = NoGate

Next ==
    \/ Upload
    \/ AutoStart
    \/ StartRun
    \/ \E k \in 1..MaxRuns, ok \in BOOLEAN : ItemStep(k, ok)
    \/ \E k \in 1..MaxRuns : CooldownEnd(k)
    \/ GetStatus
    \/ CancelRun
    \/ ClearAll
    \/ ForceUnlock
    \/ \E id \in 1..MaxFiles : RemoveItem(id)
    \/ \E id \in 1..MaxFiles : Download(id)

Spec == Init /\ [][Next]_vars

----------------------------------------------------------------------------
(* Properties of the sequential engine *)

Terminal == {"completed", "failed"}

Metrics == [processingTimeMs : {0, 1}]

StartOps == {"startRun", "autoStart"}

\* C1: at most one run of processQueue is between admission and lock release.
\* Fails: GET /api/queue takes the inter-file cooldown of a live run for a stuck
\* state, clears the lock and schedules a second run.
C1_MutualExclusion == Len(runs) <= 1

C3_LockReleasedAtRunEnd == ev.ended => ~isProcessing

\* C3 witness: a run ended on cancellation, with a file still pending.
C3_Witness ==
    /\ ev.ended
    /\ processingCancelled
    /\ CountStatus(items, fileQueue, "pending") > 0

\* C4: a run that was active when CancelRun was called hands no further file
\* to processSingleFile.  Fails: ForceUnlock, ClearAll and the admission of a
\* run restarted by the status handler reset the flag before the run reads it.
C4_CancelledRunStartsNothing == ~ev.byCancelled

\* C5: a run admitted with K items of the queue in status processing resets
\* exactly those to pending with no start timestamp, selects them together with
\* the items that were pending, in queue order, starts the first of them and
\* leaves every other item as it was.
C5_RecoveryOnStart ==
    [][ev'.admitted =>
        LET K == {id \in Range(fileQueue) : items[id].status = "processing"}
            P == {id \in Range(fileQueue) : items[id].status = "pending"}
            work == SelectSeq(fileQueue, LAMBDA id : id \in K \cup P)
            reset(id) == [items[id] EXCEPT !.status = "pending", !.startedAt = NULL]
        IN /\ ev'.recovered = K
           /\ DOMAIN items' = DOMAIN items
           /\ \A id \in K : reset(id).status = "pending" /\ reset(id).startedAt = NULL
           /\ IF work = <<>>
              THEN ev'.ended /\ ev'.started = {} /\ runs' = runs /\ items' = items
              ELSE /\ ~ev'.ended
                   /\ ev'.started = {Head(work)}
                   /\ Len(runs') = Len(runs) + 1
                   /\ runs'[Len(runs')].cur = Head(work)
                   /\ runs'[Len(runs')].pending = Tail(work)
                   /\ \A id \in DOMAIN items :
                         items'[id] =
                            IF id = Head(work)
                            THEN [items[id] EXCEPT !.status = "processing", !.startedAt = SET]
                            ELSE IF id \in K THEN reset(id)
                            ELSE items[id]]_vars

\* C5 witness: a run was admitted and recovered a stuck item while a completed
\* item was in the queue.
C5_Witness ==
    /\ ev.admitted
    /\ ev.recovered # {}
    /\ CountStatus(items, fileQueue, "completed") + CountStatus(items, fileQueue, "failed") > 0

C7_MonotonicStatus ==
    [][\A id \in DOMAIN items \cap DOMAIN items' :
          LET a == items[id].status
              b == items'[id].status
          IN a # b =>
                \/ a = "pending" /\ b = "processing"
                \/ a = "processing" /\ b \in Terminal
                \/ a = "processing" /\ b = "pending" /\ ev'.admitted]_vars

\* C8: every item's status is one of the four, and the counts of a status
\* snapshot sum to its total.
C8_StatusDomain ==
    /\ \A id \in DOMAIN items : items[id].status \in Statuses
    /\ ev.op = "getStatus" =>
          /\ ev.stats.totalFiles = Len(fileQueue)
          /\ ev.stats.pending + ev.stats.processing + ev.stats.completed
                + ev.stats.failed = ev.stats.totalFiles

\* C8 witness: a snapshot that counts a completed, a processing item.
C8_Witness ==
    /\ ev.op = "getStatus"
    /\ ev.stats.completed > 0
    /\ ev.stats.processing > 0

\* C9: a completed item has a completion timestamp and a result, a failed item
\* a completion timestamp and an error, and every item a metrics record.
C9_TerminalFields ==
    \A id \in DOMAIN items :
        LET it == items[id] IN
        /\ it.status = "completed" => it.completedAt # NULL /\ it.result # NULL
        /\ it.status = "failed" => it.completedAt # NULL /\ it.error # NULL
        /\ it.metrics \in Metrics

\* C9 witness: the queue holds a completed and a failed item.
C9_Witness ==
    /\ CountStatus(items, fileQueue, "completed") > 0
    /\ CountStatus(items, fileQueue, "failed") > 0

----------------------------------------------------------------------------
(* The batch engine (src/AUTO_PROCESSING_FIX.md 163-993) *)

Take(s, n) == SubSeq(s, 1, IF n < Len(s) THEN n ELSE Len(s))

DropOne(s, n) == Tail(s)

Drop(s, n) == SubSeq(s, n + 1, Len(s))

\* Lines 739-748: processDocumentPipeline returned; the item keeps its gating
\* record beside the result.
CompletedGated(it) == [Completed(it) EXCEPT !.gating = "gating"]

\* A suspended processQueue invocation of the batch engine.  pending is the
\* part of its pending array after the current slice, flight the items whose
\* processSingleFile promise is not settled yet, batch (history) the slice
\* started last, pc the await it is suspended at ("batch": line 766,
\* "cooldown": line 769).  work, batches and ran (history) are the files it
\* selected at admission, the number of slices it started and the files whose
\* pipeline ended.
NewRunBatch(pend) ==
    [pc |-> "start", pending |-> pend, flight |-> {}, batch |-> {},
     cancelReq |-> FALSE, work |-> Range(pend), batches |-> 0, ran |-> {}]

DoneBatch(r) == [r EXCEPT !.pc = "done", !.pending = <<>>]

ReferencedBatch(q, rs) ==
    Range(q) \cup UNION {Range(rs[k].pending) \cup rs[k].flight : k \in 1..Len(rs)}

HeapBatch(its, q, rs) == [id \in DOMAIN its \cap ReferencedBatch(q, rs) |-> its[id]]

\* Line 766, batch.map: every processSingleFile call runs to its first await
\* before the next one is made, so the whole slice is started at once.
StartAll(its, b) ==
    [id \in DOMAIN its |-> IF id \in b THEN StartItem(its[id]) ELSE its[id]]

\* Lines 762-766: the head of the for loop.
LoopHeadBatch(r, its, cancelled) ==
    IF r.pending = <<>> \/ cancelled
    THEN [items |-> its, run |-> DoneBatch(r), started |-> {}]
    ELSE LET b == Range(Take(r.pending, CONCURRENT_FILES)) IN
         [items |-> StartAll(its, b),
          run |-> [r EXCEPT !.pc = "batch",
                            !.pending = Drop(r.pending, CONCURRENT_FILES),
                            !.flight = r.flight \cup b,
                            !.batch = b,
                            !.batches = r.batches + 1],
          started |-> b]

\* Line 766: Promise.all resolves when no promise of the slice is unsettled.
AnySettled(flight) == TRUE

AllSettled(flight) == flight = {}

\* Lines 767-769: after the batch: cool down while fileQueue holds a pending
\* file, else go on with the loop.
AfterBatch(r, its, q, cancelled) ==
    IF CountStatus(its, q, "pending") > 0
    THEN [items |-> its, run |-> [r EXCEPT !.pc = "cooldown"], started |-> {}]
    ELSE LoopHeadBatch(r, its, cancelled)

\* processQueue() of the batch engine called by op on the queue q of items
\* its: lines 757-766, up to the first await, or to the end when nothing is
\* pending.
processQueueBatch(op, okResp, its, q) ==
    IF ~Admitted(isProcessing)
    THEN /\ ev' = Event(op, 0, "alreadyProcessing")
         /\ items' = its
         /\ UNCHANGED <<isProcessing, processingCancelled, runs>>
    ELSE LET res == LoopHeadBatch(NewRunBatch(pendingFiles(its, q)), its, FALSE)
             ended == res.run.pc = "done"
         IN /\ processingCancelled' = FALSE
            /\ runs' = IF ended THEN runs ELSE Append(runs, res.run)
            /\ items' = HeapBatch(res.items, q, runs')
            /\ isProcessing' = Finally(TRUE, ended)
            /\ ev' = [Event(op, 0, okResp) EXCEPT !.admitted = TRUE, !.ended = ended,
                         !.started = res.started]

SettleBatchShared(k, id, it1) ==
    /\ LET r == [runs[k] EXCEPT !.flight = @ \ {id}, !.ran = @ \cup {id}]
           its1 == [i \in DOMAIN items |-> IF i \in runs[k].batch THEN it1 ELSE items[i]]
           res == IF AllSettled(r.flight)
                  THEN AfterBatch(r, its1, fileQueue, processingCancelled)
                  ELSE [items |-> its1, run |-> r, started |-> {}]
           ended == res.run.pc = "done"
       IN /\ runs' = PutRun(k, res.run)
          /\ items' = HeapBatch(res.items, fileQueue, runs')
          /\ isProcessing' = Finally(isProcessing, ended)
          /\ ev' = [Event(IF it1.status = "completed" THEN "itemCompleted"
                                                     ELSE "itemFailed", id, "none")
                       EXCEPT !.ended = ended, !.started = res.started,
                              !.byCancelled = r.cancelReq /\ res.started # {}]
    /\ UNCHANGED <<fileQueue, processingCancelled, scheduled, nextId>>

\* The processSingleFile promise of item id, in flight in run k, settles with
\* the item as it1 (lines 739-754); when it was the last unsettled promise of
\* the slice, processQueue resumes at lines 767-773.
SettleBatch(k, id, it1) ==
    /\ LET r == [runs[k] EXCEPT !.flight = @ \ {id}, !.ran = @ \cup {id}]
           its1 == [items EXCEPT ![id] = it1]
           res == IF AllSettled(r.flight)
                  THEN AfterBatch(r, its1, fileQueue, processingCancelled)
                  ELSE [items |-> its1, run |-> r, started |-> {}]
           ended == res.run.pc = "done"
       IN /\ runs' = PutRun(k, res.run)
          /\ items' = HeapBatch(res.items, fileQueue, runs')
          /\ isProcessing' = Finally(isProcessing, ended)
          /\ ev' = [Event(IF it1.status = "completed" THEN "itemCompleted"
                                                     ELSE "itemFailed", id, "none")
                       EXCEPT !.ended = ended, !.started = res.started,
                              !.byCancelled = r.cancelReq /\ res.started # {}]
    /\ UNCHANGED <<fileQueue, processingCancelled, scheduled, nextId>>

\* The pipeline of item id, in flight in run k, returns (ok) or throws, taken
\* as one step.
ItemStepBatch(k, id, ok) ==
    /\ k \in 1..Len(runs)
    /\ id \in runs[k].flight
    /\ SettleBatch(k, id, IF ok THEN CompletedGated(items[id]) ELSE Failed(items[id]))
    /\ UNCHANGED pipeVars

\* The cooldown timer of run k fires: line 769, then the loop head.
CooldownEndBatch(k) ==
    /\ k \in 1..Len(runs)
    /\ runs[k].pc = "cooldown"
    /\ LET r == runs[k]
           res == LoopHeadBatch(r, items, processingCancelled)
           ended == res.run.pc = "done"
       IN /\ runs' = PutRun(k, res.run)
          /\ items' = HeapBatch(res.items, fileQueue, runs')
          /\ isProcessing' = Finally(isProcessing, ended)
          /\ ev' = [Event("cooldownEnd", 0, "none")
                       EXCEPT !.ended = ended, !.started = res.started,
                              !.byCancelled = r.cancelReq /\ res.started # {}]
    /\ UNCHANGED <<fileQueue, processingCancelled, scheduled, nextId>>
    /\ UNCHANGED pipeVars

----------------------------------------------------------------------------
(* The endpoints of the batch engine (src/AUTO_PROCESSING_FIX.md 779-879) *)

\* POST /api/upload with n valid files: lines 779-823.  processQueue is called
\* in the handler itself when the lock is free.
UploadBatch(n) ==
    /\ n <= MAX_FILES
    /\ nextId + n - 1 <= MaxBatchFiles
    /\ LET new == nextId..(nextId + n - 1)
           its1 == [id \in DOMAIN items \cup new |->
                       IF id \in new THEN createQueueItem ELSE items[id]]
           q1 == fileQueue \o [j \in 1..n |-> nextId + j - 1]
       IN /\ fileQueue' = q1
          /\ nextId' = nextId + n
          /\ IF isProcessing
             THEN /\ items' = its1
                  /\ ev' = Event("upload", nextId, "added")
                  /\ UNCHANGED <<isProcessing, processingCancelled, runs>>
             ELSE processQueueBatch("upload", "added", its1, q1)
    /\ UNCHANGED scheduled
    /\ UNCHANGED pipeVars

\* POST /api/process-queue: lines 841-845.
StartRunBatch ==
    /\ IF isProcessing
       THEN /\ ev' = Event("startRun", 0, "alreadyProcessing")
            /\ UNCHANGED <<items, isProcessing, processingCancelled, runs>>
       ELSE processQueueBatch("startRun", "started", items, fileQueue)
    /\ UNCHANGED <<fileQueue, scheduled, nextId>>
    /\ UNCHANGED pipeVars

\* GET /api/queue: lines 847-870.
GetStatusBatch ==
    /\ ev' = [Event("getStatus", 0, "ok")
                 EXCEPT !.stats = Stats(items, fileQueue, isProcessing),
                        !.files = Files(items, fileQueue)]
    /\ UNCHANGED <<items, fileQueue, isProcessing, processingCancelled, runs,
                   scheduled, nextId>>
    /\ UNCHANGED pipeVars

\* POST /api/cancel-queue: lines 872-875.
CancelRunBatch ==
    /\ processingCancelled' = TRUE
    /\ runs' = [k \in 1..Len(runs) |-> [runs[k] EXCEPT !.cancelReq = TRUE]]
    /\ ev' = Event("cancelRun", 0, "ok")
    /\ UNCHANGED <<items, fileQueue, isProcessing, scheduled, nextId>>
    /\ UNCHANGED pipeVars

\* POST /api/clear-queue: lines 876-879.
ClearAllBatch ==
    /\ fileQueue' = <<>>
    /\ items' = HeapBatch(items, fileQueue', runs)
    /\ ev' = Event("clearAll", 0, "ok")
    /\ UNCHANGED <<isProcessing, processingCancelled, runs, scheduled, nextId>>
    /\ UNCHANGED pipeVars

\* The body of a download response: lines 889-894.
OutputBatch(it) ==
    [processedAt |-> it.completedAt, result |-> it.result, gating |-> it.gating]

\* GET /api/download/:id: lines 881-899.
DownloadBatch(id) ==
    /\ IF id \notin Range(fileQueue)
       THEN ev' = Event("download", id, "notFound")
       ELSE IF ~Downloadable(items[id])
       THEN ev' = Event("download", id, "notCompleted")
       ELSE ev' = [Event("download", id, "ok")
                      EXCEPT !.output = OutputBatch(items[id])]
    /\ UNCHANGED <<items, fileQueue, isProcessing, processingCancelled, runs,
                   scheduled, nextId>>
    /\ UNCHANGED pipeVars

----------------------------------------------------------------------------
(* Specification of the batch engine *)

NextBatch ==
    \/ \E n \in 1..MaxBatchFiles : UploadBatch(n)
    \/ StartRunBatch
    \/ \E k \in 1..MaxRuns, id \in 1..MaxBatchFiles, ok \in BOOLEAN :
          ItemStepBatch(k, id, ok)
    \/ \E k \in 1..MaxRuns : CooldownEndBatch(k)
    \/ GetStatusBatch
    \/ CancelRunBatch
    \/ ClearAllBatch
    \/ \E id \in 1..MaxBatchFiles : DownloadBatch(id)

SpecBatch == Init /\ [][NextBatch]_vars

----------------------------------------------------------------------------
(* Properties of the batch engine *)

\* C10: batch barrier.  While items of a run are in flight they all belong to
\* the slice started last and every file of the run's later slices is still
\* pending; a step in which a run starts a slice finds no promise of the run
\* unsettled except the one that settles in that very step, and leaves every
\* item of the slice before completed or failed.
C10_BatchBarrier ==
    [][/\ \A k \in 1..Len(runs') :
             LET r == runs'[k] IN
             /\ r.flight \subseteq r.batch
             /\ r.flight # {} =>
                   \A id \in Range(r.pending) : items'[id].status = "pending"
       /\ ev'.started # {} =>
             \A k \in 1..Len(runs) :
                /\ runs[k].flight \subseteq {ev'.id}
                /\ \A id \in runs[k].batch \cap DOMAIN items' :
                      items'[id].status \in Terminal]_vars

\* C10 witness: after its cooldown a run started its next slice, the slice
\* before holding a completed and a failed item.
C10_Witness ==
    /\ ev.op = "cooldownEnd"
    /\ ev.started # {}
    /\ \E k \in 1..Len(runs) : runs[k].flight = ev.started
    /\ CountStatus(items, fileQueue, "completed") > 0
    /\ CountStatus(items, fileQueue, "failed") > 0

----------------------------------------------------------------------------
(* Properties of the scheduling, sequential engine *)

\* C11: the number of items in status processing is at most the batch width,
\* which is 1 in the sequential engine.  Fails: once the lock is cleared under
\* a live run (clear-queue, reset-processing, or the status handler during a
\* cooldown) a second run hands another file to processSingleFile.
C11_BoundedConcurrency ==
    Cardinality({id \in DOMAIN items : items[id].status = "processing"}) <= 1

----------------------------------------------------------------------------
(* Properties of the scheduling, batch engine *)

Ceil(n, w) == (n + w - 1) \div w

ItemOps == {"itemCompleted", "itemFailed"}

\* C12: a run admitted with N pending files starts slices of its own work
\* only, never a file whose pipeline it already ran or is running, every
\* pipeline that ends leaves its file completed or failed, and when the run
\* ends without having been cancelled it has started ceil(N / CONCURRENT_FILES)
\* slices and the pipeline of each of the N files has ended.
C12_BatchCount ==
    [][/\ ev'.admitted =>
             LET sel == SelectSeq(fileQueue', LAMBDA id :
                           id \in ev'.started \/ items'[id].status = "pending")
             IN /\ Len(runs) = 0
                /\ ev'.started = Range(Take(sel, CONCURRENT_FILES))
                /\ ev'.ended <=> sel = <<>>
                /\ ~ev'.ended =>
                      /\ runs'[1].batches = 1
                      /\ runs'[1].work = Range(sel)
                      /\ runs'[1].pending = SubSeq(sel, CONCURRENT_FILES + 1, Len(sel))
       /\ \A k \in 1..Len(runs) :
             LET r == runs[k]
                 ranNow == r.ran \cup (IF ev'.op \in ItemOps THEN {ev'.id} ELSE {})
             IN /\ ev'.op \in ItemOps =>
                      /\ ev'.id \in r.flight
                      /\ ev'.id \in DOMAIN items' => items'[ev'.id].status \in Terminal
                /\ ev'.started # {} =>
                      /\ ev'.started \subseteq r.work
                      /\ ev'.started \cap (ranNow \cup r.flight) = {}
                      /\ runs'[k].batches = r.batches + 1
                /\ (ev'.ended /\ ~r.cancelReq) =>
                      /\ r.batches = Ceil(Cardinality(r.work), CONCURRENT_FILES)
                      /\ ranNow = r.work]_vars

\* C12 witness: a run admitted with CONCURRENT_FILES + 1 files, not cancelled,
\* is in its second slice, the pipelines of the first having all ended.
C12_Witness ==
    \E k \in 1..Len(runs) :
        /\ Cardinality(runs[k].work) = CONCURRENT_FILES + 1
        /\ ~runs[k].cancelReq
        /\ runs[k].batches = 2
        /\ Cardinality(runs[k].ran) = CONCURRENT_FILES
        /\ runs[k].flight # {}

\* C13: a run sleeps once between two consecutive slices and not after its
\* last one: a cooldown that ends is followed by the start of a slice, and a
\* slice is never started in the step that ends the slice before.  Fails: the
\* sleep is decided on the pending files of fileQueue, not on what the run has
\* left, so a run sleeps after its last file when a file was uploaded
\* meanwhile or when it is cancelled, and does not sleep between two files
\* when the file to come was removed from the queue.
C13_CooldownPlacement ==
    [][/\ ev'.op = "cooldownEnd" => ev'.started # {}
       /\ ev'.op \in ItemOps => ev'.started = {}]_vars

\* C14: a status query observes the stuck state (lock held, no item of the
\* queue processing, an item pending) only when no processQueue invocation is
\* suspended, i.e. when no run will resume.  Fails: a run that sleeps between
\* two files holds the lock, has no file in processing and has one pending.
C14_StuckOnlyWhenAbandoned ==
    (ev.op = "getStatus" /\ ev.resp = "recovered") => runs = <<>>

C16_GetStatusIdempotent ==
    [][(ev'.op = "getStatus" /\ runs = <<>>) =>
          /\ UNCHANGED <<items, fileQueue, isProcessing, processingCancelled,
                         runs, scheduled>>
          /\ ev'.stats.totalFiles = Len(fileQueue)
          /\ ev'.stats.isProcessing = isProcessing
          /\ \A st \in Statuses :
                ev'.stats[st] = Cardinality({k \in 1..Len(fileQueue) :
                                                items[fileQueue[k]].status = st})
          /\ Len(ev'.files) = Len(fileQueue)
          /\ \A k \in 1..Len(fileQueue) :
                /\ ev'.files[k].id = fileQueue[k]
                /\ ev'.files[k].status = items[fileQueue[k]].status
                /\ ev'.files[k].error = items[fileQueue[k]].error
                /\ ev'.files[k].completedAt = items[fileQueue[k]].completedAt
          /\ ev.op = "getStatus" => (ev'.stats = ev.stats /\ ev'.files = ev.files)]_vars

\* C16 witness: a status query answered with no run active, on a queue that
\* holds a completed and a pending item.
C16_Witness ==
    /\ ev.op = "getStatus"
    /\ runs = <<>>
    /\ ev.stats.completed > 0
    /\ ev.stats.pending > 0
    /\ Len(ev.files) = MaxFiles

----------------------------------------------------------------------------
(* Automatic processing, sequential engine *)

\* The sequential engine with uploads and status queries as its only requests:
\* no manual start, cancel, clear, remove or force-unlock.
NextAuto ==
    \/ Upload
    \/ AutoStart
    \/ \E k \in 1..MaxRuns, ok \in BOOLEAN : ItemStep(k, ok)
    \/ \E k \in 1..MaxRuns : CooldownEnd(k)
    \/ GetStatus

\* Node runs the setImmediate callbacks that wait, every gateway call returns
\* or throws in the end, and every timer fires.
FairAuto ==
    /\ WF_vars(AutoStart)
    /\ \A k \in 1..MaxRuns : WF_vars(\E ok \in BOOLEAN : ItemStep(k, ok))
    /\ \A k \in 1..MaxRuns : WF_vars(CooldownEnd(k))

SpecAuto == Init /\ [][NextAuto]_vars /\ FairAuto

\* C17: every file an upload added to the queue is completed or failed in the
\* end.  Fails: a file uploaded while a run is in progress is not in the
\* pendingFiles of that run and the upload schedules no run, so the file stays
\* pending once the run has ended.
C17_AutomaticProcessing ==
    \A id \in 1..MaxFiles :
        (id \in Range(fileQueue)) ~>
            (id \in DOMAIN items /\ items[id].status \in Terminal)

----------------------------------------------------------------------------
(* Properties of the endpoints, sequential engine *)

\* C18: RemoveItem(id) on an id that is not in the queue answers not-found
\* and changes nothing; on an item in status processing it fails and changes
\* nothing; on any other item it takes exactly that item out of the queue,
\* the others keeping their order and their fields.  It never changes the
\* lock, the cancellation flag or a run.
C18_RemoveItem ==
    [][ev'.op = "removeItem" =>
          LET id == ev'.id IN
          /\ UNCHANGED <<isProcessing, processingCancelled, runs, scheduled>>
          /\ IF id \notin Range(fileQueue)
             THEN ev'.resp = "notFound" /\ UNCHANGED <<fileQueue, items>>
             ELSE IF items[id].status = "processing"
             THEN ev'.resp = "isProcessing" /\ UNCHANGED <<fileQueue, items>>
             ELSE /\ ev'.resp = "removed"
                  /\ Len(fileQueue') = Len(fileQueue) - 1
                  /\ \E k \in 1..Len(fileQueue) :
                        /\ fileQueue[k] = id
                        /\ fileQueue' = SubSeq(fileQueue, 1, k - 1) \o
                                        SubSeq(fileQueue, k + 1, Len(fileQueue))
                  /\ DOMAIN items \ {id} \subseteq DOMAIN items'
                  /\ \A o \in DOMAIN items' : items'[o] = items[o]]_vars

\* C18 witness: a pending item was removed while the other item of the queue
\* was being processed by a run.
C18_Witness ==
    /\ ev.op = "removeItem"
    /\ ev.resp = "removed"
    /\ runs # <<>>
    /\ CountStatus(items, fileQueue, "processing") > 0

\* C19: Download(id) answers not-found for an id that is not in the queue,
\* fails for an item that is not completed, returns the stored result and the
\* completion timestamp of a completed item, and changes no state.
C19_Download ==
    [][ev'.op = "download" =>
          LET id == ev'.id IN
          /\ UNCHANGED <<items, fileQueue, isProcessing, processingCancelled,
                         runs, scheduled, nextId>>
          /\ IF id \notin Range(fileQueue)
             THEN ev'.resp = "notFound" /\ ev'.output.result = NULL
             ELSE IF items[id].status # "completed"
             THEN ev'.resp = "notCompleted" /\ ev'.output.result = NULL
             ELSE /\ ev'.resp = "ok"
                  /\ ev'.output.result = items[id].result
                  /\ ev'.output.result # NULL
                  /\ ev'.output.processedAt = items[id].completedAt]_vars

\* C19 witness: the result of a completed item was downloaded while a failed
\* item was in the queue.
C19_Witness ==
    /\ ev.op = "download"
    /\ ev.resp = "ok"
    /\ ev.output.result # NULL
    /\ CountStatus(items, fileQueue, "failed") > 0

\* C20: ForceUnlock can be called in every state; it leaves the lock false,
\* reports it as false, and changes no item, not the queue and no run, whether
\* or not a run is in flight.
C20_ForceUnlock ==
    /\ [](ENABLED ForceUnlock)
    /\ [][ev'.op = "forceUnlock" =>
             /\ ~isProcessing'
             /\ ~ev'.stats.isProcessing
             /\ UNCHANGED <<items, fileQueue, runs>>]_vars

\* C20 witness: ForceUnlock cleared the lock while a run was processing a file.
C20_Witness ==
    /\ ev.op = "forceUnlock"
    /\ ~isProcessing
    /\ runs # <<>>
    /\ CountStatus(items, fileQueue, "processing") > 0

\* C21: ClearAll empties the queue whatever the status of its items, and a
\* status query that comes next reports no file: a total of zero, zero in each
\* status and an empty files array.
C21_ClearAll ==
    [][/\ ev'.op = "clearAll" => fileQueue' = <<>>
       /\ (ev.op = "clearAll" /\ ev'.op = "getStatus") =>
             /\ ev'.stats.totalFiles = 0
             /\ \A st \in Statuses : ev'.stats[st] = 0
             /\ ev'.files = <<>>]_vars

\* C21 witness: ClearAll emptied the queue while a run was processing one of
\* its files.
C21_Witness ==
    /\ ev.op = "clearAll"
    /\ fileQueue = <<>>
    /\ \E k \in 1..Len(runs) : runs[k].pc = "item" /\ items[runs[k].cur].status = "processing"

----------------------------------------------------------------------------
(* The Gate (src/AUTO_PROCESSING_FIX.md 238-372) *)

\* Scores are fixed-point numbers in thousandths (1000 is the score 1.0), the
\* weights of the composite are in hundredths, so that composites and pass
\* probabilities are in units of 1/100000; variances are in units of
\* 1/2000000.  The arithmetic is exact.

CHEAP_MODEL == "cheap"

FALLBACK_MODEL == "fallback"

\* Lines 251-258.
GATING_THRESHOLDS ==
    [compositeMin |-> 88000, correctnessMin |-> 850, completenessMin |-> 800,
     contextAlignMin |-> 820, constraintsRequired |-> TRUE,
     softFailEscalateCount |-> 2]

\* Lines 260-265.
UNCERTAINTY_LIMITS ==
    [correctnessVarMax |-> 40000, completenessVarMax |-> 50000,
     borderlineComposite |-> 91000, classifierProbMin |-> 75000]

Max2(a, b) == IF a > b THEN a ELSE b

Min2(a, b) == IF a < b THEN a ELSE b

\* Lines 328-343: features holds length, headings, tables, codeBlocks and
\* nanoComposite.
predictPassProbability(features) ==
    LET complexity15 == 300 * features.headings + 450 * features.tables
                           + 360 * features.codeBlocks
        score == features.nanoComposite - complexity15
                    - (IF features.length > 50000 THEN 5000 ELSE 0)
    IN Max2(0, Min2(100000, score))

computeCompositeDrifting(m) ==
    15 * m.clarity + 25 * m.correctness + 20 * m.completeness
       + 25 * m.constraints + 15 * m.contextAlign - 3000 * openaiMetrics.totalCalls

\* Lines 345-353.
computeComposite(m) ==
    15 * m.clarity + 25 * m.correctness + 20 * m.completeness
       + 25 * m.constraints + 15 * m.contextAlign

\* The fields a metrics object may lack, with the defaults of lines 356-366.
Features(docMetrics) ==
    (IF "features" \in DOMAIN docMetrics THEN docMetrics.features ELSE <<>>)
    @@ [length |-> 0, headings |-> 0, tables |-> 0, codeBlocks |-> 0]

ConstraintsIgnored(constraints) == FALSE

\* Line 368: the constraints rule.
ConstraintsFailed(constraints) ==
    GATING_THRESHOLDS.constraintsRequired /\ constraints = 0

\* Lines 381-385: the number of scores under their floor.
SoftFails(m) ==
    (IF m.correctness < GATING_THRESHOLDS.correctnessMin THEN 1 ELSE 0)
    + (IF m.completeness < GATING_THRESHOLDS.completenessMin THEN 1 ELSE 0)
    + (IF m.contextAlign < GATING_THRESHOLDS.contextAlignMin THEN 1 ELSE 0)

\* Lines 387-389.
Uncertainty(m) ==
    \/ m.varCorrectness > UNCERTAINTY_LIMITS.correctnessVarMax
    \/ m.varCompleteness > UNCERTAINTY_LIMITS.completenessVarMax

UncertainAnyComposite(m, Q) == Uncertainty(m)

\* Line 399: the uncertainty rule.
UncertainBorderline(m, Q) ==
    Uncertainty(m) /\ Q < UNCERTAINTY_LIMITS.borderlineComposite

\* Lines 355-410.  A verdict has the fields of the object the matching rule
\* returns.
gateDecision(docMetrics) ==
    LET Q == computeComposite(docMetrics)
        softFails == SoftFails(docMetrics)
        classifierProb ==
            predictPassProbability([nanoComposite |-> Q] @@ Features(docMetrics))
    IN IF ConstraintsFailed(docMetrics.constraints)
       THEN [escalate |-> TRUE, reason |-> "constraints_failed"]
       ELSE IF Len(docMetrics.hardFails) > 0
       THEN [escalate |-> TRUE, reason |-> "hard_fail",
             hardFails |-> docMetrics.hardFails]
       ELSE IF Q < GATING_THRESHOLDS.compositeMin
       THEN [escalate |-> TRUE, reason |-> "low_composite", Q |-> Q]
       ELSE IF softFails >= GATING_THRESHOLDS.softFailEscalateCount
       THEN [escalate |-> TRUE, reason |-> "multi_soft_fail",
             softFails |-> softFails, Q |-> Q]
       ELSE IF UncertainBorderline(docMetrics, Q)
       THEN [escalate |-> TRUE, reason |-> "uncertain_borderline", Q |-> Q]
       ELSE IF classifierProb < UNCERTAINTY_LIMITS.classifierProbMin
       THEN [escalate |-> TRUE, reason |-> "model_predicted_fail",
             classifierProb |-> classifierProb, Q |-> Q]
       ELSE [escalate |-> FALSE, Q |-> Q, classifierProb |-> classifierProb]

\* The reason of a verdict; an accepting verdict has none.
Reason(decision) == IF decision.escalate THEN decision.reason ELSE "accept"

----------------------------------------------------------------------------
(* Self evaluation and the Escalator (src/AUTO_PROCESSING_FIX.md 549-664) *)

\* The text of a self-evaluation response.  "garbage" is text that is no JSON;
\* json is the value the text denotes otherwise.  A value has per_chunk, the
\* list of the scores of the chunks, or lacks it, and doc.
Garbage == [text |-> "garbage"]

Json(value) == [text |-> "json", json |-> value]

\* Line 564: _j, JSON.parse or null.
j(s) == IF s.text = "json" THEN [null |-> FALSE, value |-> s.json] ELSE [null |-> TRUE]

RECURSIVE SumOf(_, _)
SumOf(per_chunk, k) ==
    IF per_chunk = <<>> THEN 0 ELSE per_chunk[1][k] + SumOf(Tail(per_chunk), k)

\* Lines 573-574: the mean of score k, rounded down to thousandths.
a(per_chunk, k) == SumOf(per_chunk, k) \div Len(per_chunk)

\* Lines 571-592: _derive.
derive(m) ==
    IF "per_chunk" \notin DOMAIN m \/ m.per_chunk = <<>>
    THEN [null |-> TRUE]
    ELSE [null |-> FALSE,
          clarity |-> a(m.per_chunk, "clarity"),
          correctness |-> a(m.per_chunk, "correctness"),
          completeness |-> a(m.per_chunk, "completeness"),
          contextAlign |-> a(m.per_chunk, "contextAlign"),
          constraints |-> IF m.doc.constraints_ok THEN 1000 ELSE 0,
          hardFails |-> IF m.doc.hallucination_flags > 0
                        THEN <<"hallucination">> ELSE <<>>,
          perChunk |-> m.per_chunk]

runDualEvalFirstPass(r1, r2, length) ==
    LET p1 == j(r1)
        d1 == derive(p1.value)
    IN IF p1.null THEN [errors |-> <<"parse_fail">>]
       ELSE IF d1.null THEN [errors |-> <<"metrics_fail">>]
       ELSE [metrics |->
               [clarity |-> d1.clarity, correctness |-> d1.correctness,
                completeness |-> d1.completeness, contextAlign |-> d1.contextAlign,
                constraints |-> d1.constraints, hardFails |-> d1.hardFails,
                varCorrectness |-> 0, varCompleteness |-> 0,
                perChunk |-> d1.perChunk,
                features |-> [length |-> length]]]

\* Lines 595-611: runDualEval after its two calls returned r1 and r2, on a
\* markdown of the given length.
runDualEval(r1, r2, length) ==
    LET p1 == j(r1)
        p2 == j(r2)
        d1 == derive(p1.value)
        d2 == derive(p2.value)
    IN IF p1.null \/ p2.null THEN [errors |-> <<"parse_fail">>]
       ELSE IF d1.null \/ d2.null THEN [errors |-> <<"metrics_fail">>]
       ELSE [metrics |->
               [clarity |-> d1.clarity, correctness |-> d1.correctness,
                completeness |-> d1.completeness, contextAlign |-> d1.contextAlign,
                constraints |-> d1.constraints, hardFails |-> d1.hardFails,
                varCorrectness |-> (d1.correctness - d2.correctness)
                                      * (d1.correctness - d2.correctness),
                varCompleteness |-> (d1.completeness - d2.completeness)
                                       * (d1.completeness - d2.completeness),
                perChunk |-> d1.perChunk,
                features |-> [length |-> length]]]

\* Lines 614-620.
failingIds(metrics) ==
    LET failing == SelectSeq(metrics.perChunk,
                       LAMBDA c : \/ c.correctness < GATING_THRESHOLDS.correctnessMin
                                  \/ c.contextAlign < GATING_THRESHOLDS.contextAlignMin)
    IN [i \in 1..Len(failing) |-> failing[i].id]

OverThirtyOrEqual(failing, total) == 10 * failing >= 3 * total

\* Line 622: failingIds.length / metrics.perChunk.length > 0.3.
OverThirty(failing, total) == 10 * failing > 3 * total

EscalateModeNeverNone(metrics) ==
    IF OverThirty(Len(failingIds(metrics)), Len(metrics.perChunk)) THEN "full"
    ELSE "partial"

\* Lines 621-663: the mode escalate ends in when its calls succeed.
EscalateMode(metrics) ==
    LET ids == failingIds(metrics) IN
    IF ids = <<>> THEN "none"
    ELSE IF OverThirty(Len(ids), Len(metrics.perChunk)) THEN "full"
    ELSE "partial"

\* Lines 623 and 643-658: the gateway calls escalate makes.
EscalateCalls(metrics) ==
    LET mode == EscalateMode(metrics) IN
    IF mode = "none" THEN 0 ELSE IF mode = "full" THEN 1 ELSE Len(failingIds(metrics))

----------------------------------------------------------------------------
(* The Gate and the Escalator on given metrics: specification SpecGate *)

\* The scores of chunk i of a self evaluation, by kind: a good chunk, or one
\* with the named score low.
Chunk(i, kind) ==
    [id |-> i,
     clarity |-> 950,
     correctness |-> IF kind = "correctness" THEN 700 ELSE 950,
     completeness |-> IF kind = "completeness" THEN 300 ELSE 950,
     contextAlign |-> IF kind = "contextAlign" THEN 700 ELSE 950]

ChunkKinds == {"correctness", "completeness", "contextAlign"}

\* A response that parses into the expected schema: n chunks, the first bad
\* of them of the given kind, the others good.
EvalResponse(n, bad, kind, constraints_ok, hallucination_flags) ==
    Json([per_chunk |-> [i \in 1..n |-> Chunk(i, IF i <= bad THEN kind ELSE "good")],
          doc |-> [constraints_ok |-> constraints_ok,
                   hallucination_flags |-> hallucination_flags]])

\* Metrics as runDualEval merges them from two equal responses.
ShapeMetrics ==
    {runDualEval(EvalResponse(n, bad, kind, c, h),
                 EvalResponse(n, bad, kind, c, h), 1000).metrics :
        n \in 1..MaxChunks, bad \in 0..MaxChunks, kind \in ChunkKinds,
        c \in BOOLEAN, h \in 0..1}

\* Document metrics around the thresholds of the Gate.
GridMetrics ==
    [clarity : {600, 1000}, correctness : {840, 850, 900, 1000},
     completeness : {790, 800, 1000}, contextAlign : {810, 820, 1000},
     constraints : {0, 1000}, hardFails : {<<>>, <<"hallucination">>},
     varCorrectness : {0, 40000, 40001}, varCompleteness : {0, 50001},
     perChunk : {<<>>},
     features : [length : {0, 50001}, headings : {0, 50, 100}]]

InitGate ==
    /\ InitQueue
    /\ gate \in {[pc |-> "metrics", metrics |-> m] : m \in GridMetrics \cup ShapeMetrics}

\* processDocumentPipeline line 693.
GateStep ==
    /\ gate.pc = "metrics"
    /\ gate' = [pc |-> "decided", metrics |-> gate.metrics,
                decision |-> gateDecision(gate.metrics)]
    /\ UNCHANGED <<items, fileQueue, isProcessing, processingCancelled, runs,
                   scheduled, nextId, pipe, openaiMetrics, ev>>

\* processDocumentPipeline lines 696-698, the gateway calls of escalate
\* succeeding.
EscalateStep ==
    /\ gate.pc = "decided"
    /\ gate.decision.escalate
    /\ gate' = [pc |-> "escalated", metrics |-> gate.metrics,
                decision |-> gate.decision, escalateMode |-> EscalateMode(gate.metrics)]
    /\ UNCHANGED <<items, fileQueue, isProcessing, processingCancelled, runs,
                   scheduled, nextId, pipe, openaiMetrics, ev>>

NextGate == GateStep \/ EscalateStep

SpecGate == InitGate /\ [][NextGate]_vars

Decided == gate.pc \in {"decided", "escalated"}

\* C22: whenever the Gate has decided on metrics whose constraints flag is
\* false, the verdict is escalate with reason constraints_failed, whatever the
\* scores, the variances and the hallucination flag are.
C22_ConstraintsFirst ==
    (Decided /\ gate.metrics.constraints = 0) =>
        /\ gate.decision.escalate
        /\ gate.decision.reason = "constraints_failed"

\* C22 witness: constraints false beside a hallucination and beside perfect
\* scores.
C22_Witness ==
    /\ Decided
    /\ gate.metrics.constraints = 0
    /\ gate.metrics.hardFails # <<>>
    /\ gate.metrics.clarity = 1000 /\ gate.metrics.correctness = 1000
    /\ gate.metrics.completeness = 1000 /\ gate.metrics.contextAlign = 1000
    /\ gate.decision.reason = "constraints_failed"

\* The soft fails, the composite and the pass probability of the metrics the
\* Gate was given, written out from the weights and the floors.
GateQ ==
    LET m == gate.metrics IN
    (15 * m.clarity + 25 * m.correctness + 20 * m.completeness
        + 25 * m.constraints + 15 * m.contextAlign)

GateSoft ==
    LET m == gate.metrics IN
    Cardinality({s \in {"correctness", "completeness", "contextAlign"} :
                    m[s] < [correctness |-> 850, completeness |-> 800,
                            contextAlign |-> 820][s]})

GateHighVariance ==
    gate.metrics.varCorrectness > 40000 \/ gate.metrics.varCompleteness > 50000

GateProb ==
    LET f == Features(gate.metrics)
        score == GateQ - 300 * f.headings - 450 * f.tables - 360 * f.codeBlocks
                    - (IF f.length > 50000 THEN 5000 ELSE 0)
    IN IF score < 0 THEN 0 ELSE IF score > 100000 THEN 100000 ELSE score

\* C24: the verdict of the Gate is that of the first matching rule in the
\* order constraints_failed, hard_fail, low_composite, multi_soft_fail,
\* uncertain_borderline, model_predicted_fail, and accept when none matches;
\* a high variance with a composite at or above the borderline threshold
\* never yields uncertain_borderline.
C24_DecisionOrder ==
    Decided =>
        LET m == gate.metrics
            first == IF m.constraints = 0 THEN "constraints_failed"
                     ELSE IF m.hardFails # <<>> THEN "hard_fail"
                     ELSE IF GateQ < 88000 THEN "low_composite"
                     ELSE IF GateSoft >= 2 THEN "multi_soft_fail"
                     ELSE IF GateHighVariance /\ GateQ < 91000 THEN "uncertain_borderline"
                     ELSE IF GateProb < 75000 THEN "model_predicted_fail"
                     ELSE "accept"
        IN /\ Reason(gate.decision) = first
           /\ gate.decision.escalate <=> first # "accept"
           /\ (GateHighVariance /\ GateQ >= 91000) =>
                 Reason(gate.decision) # "uncertain_borderline"

\* C24 witness: a high variance with a composite at or above the borderline
\* threshold, accepted.
C24_Witness ==
    /\ Decided
    /\ GateHighVariance
    /\ GateQ >= 91000
    /\ ~gate.decision.escalate

\* The failing chunks of the metrics the Escalator was given.
GateFailing ==
    {i \in 1..Len(gate.metrics.perChunk) :
        \/ gate.metrics.perChunk[i].correctness < 850
        \/ gate.metrics.perChunk[i].contextAlign < 820}

\* C26: with F >= 1 failing chunks out of T the Escalator chooses mode full
\* exactly when 10 F > 3 T and mode partial exactly when 10 F <= 3 T, the
\* boundary F / T = 30% included.
C26_EscalatorBoundary ==
    (gate.pc = "escalated" /\ Cardinality(GateFailing) >= 1) =>
        LET F == Cardinality(GateFailing)
            T == Len(gate.metrics.perChunk)
        IN /\ gate.escalateMode = "full" <=> 10 * F > 3 * T
           /\ gate.escalateMode = "partial" <=> 10 * F <= 3 * T

\* C26 witness: 3 failing chunks out of 10, mode partial.
C26_Witness ==
    /\ gate.pc = "escalated"
    /\ Cardinality(GateFailing) = 3
    /\ Len(gate.metrics.perChunk) = 10
    /\ gate.escalateMode = "partial"

----------------------------------------------------------------------------
(* The gating pipeline of a file, call by call (src/AUTO_PROCESSING_FIX.md  *)
(* 671-755): specification SpecPipeline                                     *)

\* callChat rejects: lines 315-324.
Throw == [text |-> "throw"]

\* A response that is JSON without per_chunk.
NoMetrics == Json([doc |-> [constraints_ok |-> TRUE, hallucination_flags |-> 0]])

\* The texts a self-evaluation call returns in this specification.
PipeResponses ==
    {Garbage, NoMetrics}
    \cup {EvalResponse(PipeChunks, bad, "correctness", FALSE, 0) : bad \in 0..2}
    \cup {EvalResponse(PipeChunks, 0, "correctness", TRUE, h) : h \in 0..1}

\* md.length, line 609.
MarkdownLength == 1000

\* A processDocumentPipeline invocation.  pc is the await it is suspended at
\* ("eval2": line 596, "rewrite": lines 623 / 646, "convert": lines 677 / 703)
\* or how it ended ("returned", "threw"); evals the texts of the
\* self-evaluation calls so far; evaluated whether runDualEval gave metrics;
\* left the calls escalate has still to make; workingMarkdown the text the
\* conversion will get, the markdown it was called with or the
\* improvedMarkdown of a rewrite; calls (history) the gateway
\* calls made, with the call site, the model and whether the call succeeded;
\* gating the gating object it returned.
NewPipe ==
    [pc |-> "eval1", evals |-> <<>>, evaluated |-> FALSE, metrics |-> <<>>,
     decision |-> <<>>, escalateMode |-> "none", workingMarkdown |-> "markdown",
     left |-> 0, calls |-> <<>>, gating |-> <<>>]

Call(site, model, ok) == [site |-> site, model |-> model, ok |-> ok]

AlwaysCheap(decision) == CHEAP_MODEL

\* Line 702.
chosenModel(decision) == IF decision.escalate THEN FALLBACK_MODEL ELSE CHEAP_MODEL

ConvertModelAsGated(p) == CHEAP_MODEL

\* The model of the conversion call: lines 681 and 707.
ConvertModel(p) == IF p.evaluated THEN chosenModel(p.decision) ELSE FALLBACK_MODEL

\* The gating object of lines 685-690 and 711-718.
Gating(p) ==
    IF ~p.evaluated
    THEN [model_used |-> FALLBACK_MODEL, escalate |-> TRUE,
          reason |-> "self_eval_failed", raw |-> p.evals]
    ELSE [model_used |-> chosenModel(p.decision), escalate |-> p.decision.escalate,
          escalateMode |-> p.escalateMode, metrics |-> p.metrics]
         @@ (IF "Q" \in DOMAIN p.decision
             THEN [compositeQ |-> p.decision.Q] ELSE <<>>)
         @@ (IF "classifierProb" \in DOMAIN p.decision
             THEN [classifierProb |-> p.decision.classifierProb] ELSE <<>>)

\* Lines 673-700 once the second self-evaluation call returned: where the
\* pipeline awaits next.
AfterDualEval(p, r2) ==
    LET dual == runDualEval(p.evals[1], r2, MarkdownLength)
        p1 == [p EXCEPT !.evals = Append(@, r2),
                        !.calls = Append(@, Call("selfEval", CHEAP_MODEL, TRUE))]
    IN IF "metrics" \notin DOMAIN dual
       THEN [p1 EXCEPT !.pc = "convert"]
       ELSE LET decision == gateDecision(dual.metrics)
                n == IF decision.escalate THEN EscalateCalls(dual.metrics) ELSE 0
            IN [p1 EXCEPT !.evaluated = TRUE, !.metrics = dual.metrics,
                          !.decision = decision, !.left = n,
                          !.escalateMode = IF decision.escalate /\ n = 0
                                           THEN EscalateMode(dual.metrics) ELSE @,
                          !.pc = IF n > 0 THEN "rewrite" ELSE "convert"]

\* The pipeline of item id throws at the call of the given site: the catch
\* block of processSingleFile, lines 748-754.
PipeThrows(k, id, p, site, model) ==
    /\ pipe' = (id :> [p EXCEPT !.pc = "threw",
                                !.calls = Append(@, Call(site, model, FALSE))]) @@ pipe
    /\ SettleBatch(k, id, Failed(items[id]))
    /\ UNCHANGED <<openaiMetrics, gate>>

\* The pipeline of item id goes on to its next await as p after a call that
\* succeeded.
PipeGoesOn(id, p) ==
    /\ pipe' = (id :> p) @@ pipe
    /\ openaiMetrics' = [openaiMetrics EXCEPT !.totalCalls = @ + 1]
    /\ ev' = Event("callChat", id, "none")
    /\ UNCHANGED <<items, fileQueue, isProcessing, processingCancelled, runs,
                   scheduled, nextId, gate>>

\* The first self-evaluation call of item id, in flight in run k, settles:
\* line 594.
EvalPass1(k, id, r1) ==
    /\ k \in 1..Len(runs)
    /\ id \in runs[k].flight
    /\ id \notin DOMAIN pipe
    /\ IF r1 = Throw
       THEN PipeThrows(k, id, NewPipe, "selfEval", CHEAP_MODEL)
       ELSE PipeGoesOn(id, [NewPipe EXCEPT !.pc = "eval2", !.evals = <<r1>>,
                               !.calls = <<Call("selfEval", CHEAP_MODEL, TRUE)>>])

\* The second self-evaluation call settles: lines 596-612 and 673-700.
EvalPass2(k, id, r2) ==
    /\ k \in 1..Len(runs)
    /\ id \in runs[k].flight
    /\ id \in DOMAIN pipe
    /\ pipe[id].pc = "eval2"
    /\ IF r2 = Throw
       THEN PipeThrows(k, id, pipe[id], "selfEval", CHEAP_MODEL)
       ELSE PipeGoesOn(id, AfterDualEval(pipe[id], r2))

\* A call of escalate settles: lines 623-641 (full) and 646-661 (partial).
Rewrite(k, id, ok) ==
    /\ k \in 1..Len(runs)
    /\ id \in runs[k].flight
    /\ id \in DOMAIN pipe
    /\ pipe[id].pc = "rewrite"
    /\ LET p == pipe[id]
           mode == EscalateMode(p.metrics)
       IN IF ~ok
          THEN PipeThrows(k, id, p, mode, FALLBACK_MODEL)
          ELSE PipeGoesOn(id,
                  [p EXCEPT !.left = @ - 1,
                            !.calls = Append(@, Call(mode, FALLBACK_MODEL, TRUE)),
                            !.escalateMode = IF p.left = 1 THEN mode ELSE @,
                            !.workingMarkdown = IF p.left = 1 THEN "improved" ELSE @,
                            !.pc = IF p.left = 1 THEN "convert" ELSE @])

\* The conversion call settles: processDocumentWithLLM lines 522-545, then
\* lines 683-691 or 709-719 and processSingleFile lines 739-754.  The call
\* rejects ("throw"), returns text that is no JSON with doc and chunks
\* ("invalid"), or returns the converted document ("ok").
Convert(k, id, out) ==
    /\ k \in 1..Len(runs)
    /\ id \in runs[k].flight
    /\ id \in DOMAIN pipe
    /\ pipe[id].pc = "convert"
    /\ LET p == pipe[id]
           model == ConvertModel(p)
       IN IF out = "throw"
          THEN PipeThrows(k, id, p, "convert", model)
          ELSE /\ openaiMetrics' = [openaiMetrics EXCEPT !.totalCalls = @ + 1]
               /\ UNCHANGED gate
               /\ IF out = "invalid"
                  THEN /\ pipe' = (id :> [p EXCEPT !.pc = "threw",
                                             !.calls = Append(@, Call("convert", model, TRUE))])
                                  @@ pipe
                       /\ SettleBatch(k, id, Failed(items[id]))
                  ELSE /\ pipe' = (id :> [p EXCEPT !.pc = "returned",
                                             !.calls = Append(@, Call("convert", model, TRUE)),
                                             !.gating = Gating(p)])
                                  @@ pipe
                       /\ SettleBatch(k, id, CompletedGated(items[id]))

\* POST /api/upload of the gating pipeline's engine.
UploadDoc(n) ==
    /\ nextId + n - 1 <= MaxDocs
    /\ UploadBatch(n)

NextPipeline ==
    \/ \E n \in 1..MaxDocs : UploadDoc(n)
    \/ StartRunBatch
    \/ \E k \in 1..MaxRuns, id \in 1..MaxDocs, r \in PipeResponses \cup {Throw} :
          EvalPass1(k, id, r) \/ EvalPass2(k, id, r)
    \/ \E k \in 1..MaxRuns, id \in 1..MaxDocs, ok \in BOOLEAN : Rewrite(k, id, ok)
    \/ \E k \in 1..MaxRuns, id \in 1..MaxDocs, out \in {"ok", "invalid", "throw"} :
          Convert(k, id, out)
    \/ \E k \in 1..MaxRuns : CooldownEndBatch(k)
    \/ CancelRunBatch

SpecPipeline == Init /\ [][NextPipeline]_vars

----------------------------------------------------------------------------
(* Properties of the gating pipeline *)

\* The conversion calls a pipeline made.
ConvertCalls(p) == SelectSeq(p.calls, LAMBDA c : c.site = "convert")

\* C23: when both evaluation passes of an item parse, the constraints are
\* satisfied and one of the two passes reports a hallucination count above
\* zero, the verdict of the Gate is escalate with reason hard_fail and the
\* conversion call is made on the strong tier.
C23_HallucinationHardFail ==
    \A id \in DOMAIN pipe :
        LET p == pipe[id] IN
        (/\ p.evaluated
         /\ \A i \in 1..2 : p.evals[i].json.doc.constraints_ok
         /\ \E i \in 1..2 : p.evals[i].json.doc.hallucination_flags > 0) =>
            /\ p.decision.escalate
            /\ p.decision.reason = "hard_fail"
            /\ \A i \in 1..Len(ConvertCalls(p)) :
                  ConvertCalls(p)[i].model = FALLBACK_MODEL

C27_TierSelection ==
    \A id \in DOMAIN items \cap DOMAIN pipe :
        LET p == pipe[id] IN
        (items[id].status = "completed" /\ p.evaluated) =>
            /\ Len(ConvertCalls(p)) = 1
            /\ ConvertCalls(p)[1].model = CHEAP_MODEL <=> ~p.decision.escalate
            /\ ConvertCalls(p)[1].model = FALLBACK_MODEL <=> p.decision.escalate
            /\ items[id].gating # NULL
            /\ p.gating.model_used = ConvertCalls(p)[1].model
            /\ p.gating.escalate = p.decision.escalate

\* C27 witness: an item completed after the Gate escalated and the Escalator
\* found no failing chunk.
C27_Witness ==
    \E id \in DOMAIN items \cap DOMAIN pipe :
        /\ items[id].status = "completed"
        /\ pipe[id].evaluated
        /\ pipe[id].decision.escalate
        /\ pipe[id].gating.escalateMode = "none"
        /\ pipe[id].gating.model_used = FALLBACK_MODEL

\* The pipelines whose two self-evaluation calls returned and whose
\* evaluation failed: a text did not parse or lacked per_chunk.
EvalFailed(p) == Len(p.evals) = 2 /\ ~p.evaluated

EvaluationRan(id) == id \in DOMAIN pipe /\ Len(pipe[id].evals) = 2

\* C29: an item whose pipeline ended has a gating record if and only if its
\* evaluation ran, so an item that failed in the Escalator or in the
\* conversion after its evaluation carries one; an item whose evaluation did
\* not run carries none.
C29_GatingIffEvaluated ==
    \A id \in DOMAIN items :
        /\ items[id].status \in {"completed", "failed"} =>
              (items[id].gating # NULL <=> EvaluationRan(id))
        /\ ~EvaluationRan(id) => items[id].gating = NULL

\* C30: an item that failed is never started again, by the run that
\* processed it or by any other run.
C30_FailedNeverRerun ==
    [][\A id \in DOMAIN items :
          items[id].status = "failed" => id \notin ev'.started]_vars

----------------------------------------------------------------------------
(* The limits of the queue (src/backend/app.js 19-21, 661-797):            *)
(* specification SpecCapacity                                              *)

\* createQueueItem for a file of the given size: line 89.
createSizedItem(size) == [originalSize |-> size] @@ createQueueItem

RECURSIVE TotalSize(_, _)
\* Lines 687-690: fileQueue.reduce((sum, f) => sum + f.originalSize, 0).
TotalSize(its, q) ==
    IF q = <<>> THEN 0 ELSE its[Head(q)].originalSize + TotalSize(its, Tail(q))

FitsCount(currentQueueSize, n) == TRUE

\* Line 676: the file count test.
FitsQueue(currentQueueSize, n) == currentQueueSize + n <= MAX_FILES

\* Line 693: the total size test.
FitsTotal(currentTotalSize, newTotalSize) ==
    currentTotalSize + newTotalSize <= MAX_TOTAL_SIZE

\* Lines 717-751: a file passes the validation (the extension is taken to be
\* allowed).
ValidFile(size) == size <= MAX_FILE_SIZE

\* The requests of this specification: n files of one size each.
UploadRequests ==
    {[n |-> 1, size |-> 1], [n |-> 1, size |-> MAX_FILE_SIZE + 1],
     [n |-> 25, size |-> 1], [n |-> 10, size |-> MAX_FILE_SIZE]}

\* POST /api/upload with n files of the given size: lines 661-797.
UploadFiles(n, size) ==
    /\ nextId + n - 1 <= MaxCapFiles
    /\ IF ~FitsQueue(Len(fileQueue), n)
       THEN /\ ev' = Event("upload", 0, "queueLimit")
            /\ UNCHANGED <<items, fileQueue, nextId, scheduled>>
       ELSE IF ~FitsTotal(TotalSize(items, fileQueue), n * size)
       THEN /\ ev' = Event("upload", 0, "sizeLimit")
            /\ UNCHANGED <<items, fileQueue, nextId, scheduled>>
       ELSE LET added == IF ValidFile(size) THEN n ELSE 0
                new == nextId..(nextId + added - 1)
            IN /\ items' = [id \in DOMAIN items \cup new |->
                              IF id \in new THEN createSizedItem(size) ELSE items[id]]
               /\ fileQueue' = fileQueue \o [i \in 1..added |-> nextId + i - 1]
               /\ nextId' = nextId + added
               /\ scheduled' = (scheduled \/ (added > 0 /\ ~isProcessing))
               /\ ev' = Event("upload", nextId, IF added > 0 THEN "added" ELSE "skipped")
    /\ UNCHANGED <<isProcessing, processingCancelled, runs>>
    /\ UNCHANGED pipeVars

\* The items a removal is asked for in this specification.
CapRemoved == 1..2

NextCapacity ==
    \/ \E rq \in UploadRequests : UploadFiles(rq.n, rq.size)
    \/ \E id \in CapRemoved : RemoveItem(id)
    \/ ClearAll

SpecCapacity == Init /\ [][NextCapacity]_vars

----------------------------------------------------------------------------
(* The partial rewrite of the Escalator (src/AUTO_PROCESSING_FIX.md        *)
(* 642-663): specification SpecSplice                                      *)

\* A text is a sequence of characters.  The characters of a document are
\* 1, 2, ... in order; the characters of the revision of chunk id are -id.

\* md.slice(start, end), line 645.
Slice(md, start, end) ==
    SubSeq(md, Min2(start, Len(md)) + 1, Min2(end, Len(md)))

\* rebuilt.splice(start, deleteCount, ...text), line 661.
Splice(rebuilt, start, deleteCount, text) ==
    LET from == Min2(start, Len(rebuilt))
        del == Max2(0, Min2(deleteCount, Len(rebuilt) - from))
    IN SubSeq(rebuilt, 1, from) \o text \o SubSeq(rebuilt, from + del + 1, Len(rebuilt))

\* A document of chunks of w characters each, chunk i spanning
\* [(i - 1) w, i w), with the chunks of the set failing scored low.
SpliceChunk(i, w, failing) ==
    [start |-> (i - 1) * w, end |-> i * w] @@
    Chunk(i, IF i \in failing THEN "correctness" ELSE "good")

\* The text a rewrite call returns for chunk id: n characters.
Revision(id, n) == [i \in 1..n |-> 0 - id]

\* The calls of escalate that reach the partial rewrite: at most 30% of the
\* chunks fail.
InitSplice ==
    /\ InitQueue
    /\ \E w \in 1..MaxSpan, failing \in SUBSET (1..SpliceChunks) :
          /\ failing # {}
          /\ ~OverThirty(Cardinality(failing), SpliceChunks)
          /\ \E lens \in [failing -> 1..MaxRevision] :
                LET md == [i \in 1..(SpliceChunks * w) |-> i]
                    perChunk == [i \in 1..SpliceChunks |-> SpliceChunk(i, w, failing)]
                IN gate = [pc |-> "partial", md |-> md, rebuilt |-> md,
                           metrics |-> [perChunk |-> perChunk], at |-> 1,
                           fixes |-> [id \in failing |-> Revision(id, lens[id])]]

\* The next chunk the loop of lines 643-662 makes a call for, from index at
\* on; 0 when there is none.
NextFailing(metrics, at) ==
    LET ids == failingIds(metrics)
        rest == {i \in at..Len(metrics.perChunk) :
                    \E n \in 1..Len(ids) : ids[n] = metrics.perChunk[i].id}
    IN IF rest = {} THEN 0 ELSE CHOOSE i \in rest : \A n \in rest : i <= n

\* The rewrite call of the next failing chunk returns its text: lines
\* 643-662, and line 663 after the last one.
SpliceStep ==
    /\ gate.pc = "partial"
    /\ LET i == NextFailing(gate.metrics, gate.at) IN
       IF i = 0
       THEN gate' = [pc |-> "spliced", md |-> gate.md, metrics |-> gate.metrics,
                     fixes |-> gate.fixes, escalateMode |-> "partial",
                     improvedMarkdown |-> gate.rebuilt]
       ELSE LET c == gate.metrics.perChunk[i]
                span == Slice(gate.md, c.start, c.end)
                content == gate.fixes[c.id]
                newText == IF content = <<>> THEN span ELSE content
            IN gate' = [gate EXCEPT !.at = i + 1,
                           !.rebuilt = Splice(@, c.start, c.end - c.start, newText)]
    /\ UNCHANGED <<items, fileQueue, isProcessing, processingCancelled, runs,
                   scheduled, nextId, pipe, openaiMetrics, ev>>

NextSplice == SpliceStep

SpecSplice == InitSplice /\ [][NextSplice]_vars

RECURSIVE Spliced(_, _, _)
\* The document with the span of each failing chunk replaced by its revision:
\* the chunks from i on.
Spliced(g, i, failing) ==
    IF i > Len(g.metrics.perChunk) THEN <<>>
    ELSE LET c == g.metrics.perChunk[i] IN
         (IF c.id \in failing THEN g.fixes[c.id]
          ELSE SubSeq(g.md, c.start + 1, c.end))
         \o Spliced(g, i + 1, failing)

\* C32: in mode partial the revised document is the original with the span
\* [start, end) of each failing chunk replaced by its revision and every
\* other character kept, in order, for any number of failing chunks and any
\* length of the revisions.
C32_PartialSplice ==
    gate.pc = "spliced" =>
        gate.improvedMarkdown = Spliced(gate, 1, DOMAIN gate.fixes)

\* C33: when the Gate escalates and no chunk has correctness or context
\* alignment under its floor, the Escalator returns mode none and the text
\* unchanged, makes no gateway call and raises no error: the pipeline goes on
\* with the conversion.
C33_EscalatorNone ==
    \A id \in DOMAIN pipe :
        LET p == pipe[id] IN
        (/\ p.evaluated
         /\ p.decision.escalate
         /\ \A i \in 1..Len(p.metrics.perChunk) :
               /\ p.metrics.perChunk[i].correctness >= 850
               /\ p.metrics.perChunk[i].contextAlign >= 820) =>
            /\ p.escalateMode = "none"
            /\ p.workingMarkdown = "markdown"
            /\ \A i \in 1..Len(p.calls) : p.calls[i].site \in {"selfEval", "convert"}
            /\ p.pc = "convert" \/ Len(ConvertCalls(p)) = 1

\* C33 witness: the Gate escalated for a hallucination, no chunk was
\* failing, and the conversion was made.
C33_Witness ==
    \E id \in DOMAIN pipe :
        /\ pipe[id].evaluated
        /\ pipe[id].decision.escalate
        /\ pipe[id].decision.reason = "hard_fail"
        /\ failingIds(pipe[id].metrics) = <<>>
        /\ pipe[id].pc = "returned"

\* The self-evaluation calls a pipeline made.
EvalCalls(p) == SelectSeq(p.calls, LAMBDA c : c.site = "selfEval")

\* A response is valid: it parses and has scores of at least one chunk.
ValidResponse(r) ==
    /\ r.text = "json"
    /\ "per_chunk" \in DOMAIN r.json
    /\ r.json.per_chunk # <<>>

\* C34: an evaluation whose calls succeed makes exactly two gateway calls,
\* both on the cheap tier, also when the first response does not parse; there
\* is no third call; it gives metrics exactly when both responses are valid
\* and an evaluation failure otherwise.
C34_TwoEvalCalls ==
    \A id \in DOMAIN pipe :
        LET p == pipe[id] IN
        /\ Len(EvalCalls(p)) <= 2
        /\ \A i \in 1..Len(EvalCalls(p)) : EvalCalls(p)[i].model = CHEAP_MODEL
        /\ (\A i \in 1..Len(EvalCalls(p)) : EvalCalls(p)[i].ok) =>
              Len(EvalCalls(p)) = Len(p.evals)
        /\ Len(p.evals) = 2 =>
              /\ Len(EvalCalls(p)) = 2
              /\ p.evaluated <=> (ValidResponse(p.evals[1]) /\ ValidResponse(p.evals[2]))
        /\ Len(p.evals) < 2 => ~p.evaluated

\* C34 witness: the first response did not parse, the second call was made
\* and returned a valid evaluation, and the evaluation failed.
C34_Witness ==
    \E id \in DOMAIN pipe :
        /\ Len(pipe[id].evals) = 2
        /\ pipe[id].evals[1] = Garbage
        /\ ValidResponse(pipe[id].evals[2])
        /\ ~pipe[id].evaluated
        /\ Len(EvalCalls(pipe[id])) = 2

\* The steps of the pipeline of an item after its start.
PipelineOps == {"callChat", "itemCompleted", "itemFailed"}

\* C35: a step of the pipeline of an item (its start, the end of a stage, its
\* success, its failure) changes the fields of that item only: every item
\* whose fields change in a step is the item whose pipeline made the step or
\* an item started in it, and the pipeline of no other item moves.
C35_FieldIsolation ==
    [][\A id \in DOMAIN items :
          /\ id \in DOMAIN items'
          /\ items'[id] # items[id] =>
                \/ id \in ev'.started
                \/ ev'.op \in PipelineOps /\ id = ev'.id
          /\ (id \in DOMAIN pipe /\ pipe'[id] # pipe[id]) =>
                ev'.op \in PipelineOps /\ id = ev'.id]_vars

\* C35 witness: the pipeline of one item of a batch failed while another
\* item of the batch is between its two evaluation calls.
C35_Witness ==
    /\ ev.op = "itemFailed"
    /\ \E id \in DOMAIN pipe :
          /\ id # ev.id
          /\ pipe[id].pc = "eval2"
          /\ items[id].status = "processing"
          /\ items[ev.id].status = "failed"

----------------------------------------------------------------------------
(* The run lock and the live runs (src/backend/app.js 589-652, 874-894,
   972-1006) *)

\* C36: while a run is between its admission and its lock release the run
\* lock is true, whether it awaits an item, or sleeps in the cooldown, and in
\* particular while it has further files to start.
\* Fails: POST /api/debug/reset-processing and POST /api/clear-queue assign
\* isProcessing = false without looking at the suspended run, and so does
\* GET /api/queue during the cooldown of a run.
C36_LockTracksRun ==
    \A k \in 1..Len(runs) :
        runs[k].pc \in {"item", "cooldown"} => isProcessing

----------------------------------------------------------------------------
(* One pipeline per item (src/backend/app.js 516-524, 603-639) *)

\* The runs that await processSingleFile of item id (line 629).
InFlight(id) == {k \in 1..Len(runs) : runs[k].pc = "item" /\ runs[k].cur = id}

\* C37: no item has two pipelines in flight at once, and processSingleFile is
\* called only on an item that is pending, either since its upload or since
\* the recovery of the admission that starts it; never on a processing,
\* completed or failed one.
\* Fails: a second run, admitted while a first one is suspended, recovers the
\* item the first one awaits and starts it too; and a run starts the files of
\* its pendingFiles array whatever their status has become.
C37_NoDoubleProcessing ==
    /\ [](\A id \in DOMAIN items : Cardinality(InFlight(id)) <= 1)
    /\ [][\A id \in ev'.started :
             \/ items[id].status = "pending"
             \/ items[id].status = "processing" /\ id \in ev'.recovered]_vars

----------------------------------------------------------------------------
(* Removed items (src/backend/app.js 616-639, 972-982, 1011-1029) *)

\* C38: a run starts only items that are in the queue: an item taken out by
\* DELETE /api/queue/:fileId or by POST /api/clear-queue is started by no run,
\* not even by one admitted before the removal.
\* Fails: pendingFiles (line 616) is an array of its own; the splice of line
\* 1027 and the assignment of line 974 leave it as it was, and the loop hands
\* each of its files to processSingleFile.
C38_RemovedNeverProcessed ==
    [][\A id \in ev'.started : id \in Range(fileQueue)]_vars

----------------------------------------------------------------------------
(* The files of a run (src/backend/app.js 616-642) *)

RunOps == {"itemCompleted", "itemFailed", "cooldownEnd"}

\* Run k is the invocation that resumes in the step.
Resumes(k) ==
    /\ ev'.op \in RunOps
    /\ \/ runs' = RemoveAt(runs, k)
       \/ Len(runs') = Len(runs) /\ runs'[k] # runs[k]

\* C39: a run works on the files that were pending, stuck ones included, when
\* it was admitted, one by one in the order of the queue (the sequential
\* engine has batches of one file); it starts no file enqueued after its
\* admission, and such a file, if still in the queue, is pending when the run
\* releases the lock.
\* Fails on the last part: a status query during the cooldown of the run, or
\* a forced unlock, lets a second run in, which starts the file enqueued
\* meanwhile before the first run has ended.
C39_SnapshotOrder ==
    [][/\ (ev'.admitted /\ ~ev'.ended) =>
             LET sel == SelectSeq(fileQueue, LAMBDA id :
                           items[id].status \in {"pending", "processing"})
                 r == runs'[Len(runs')]
             IN /\ ev'.started = {Head(sel)}
                /\ r.pending = Tail(sel)
       /\ \A k \in 1..Len(runs) :
             Resumes(k) =>
                /\ ev'.started # {} =>
                      /\ runs[k].pending # <<>>
                      /\ ev'.started = {Head(runs[k].pending)}
                      /\ runs'[k].pending = Tail(runs[k].pending)
                      /\ \A id \in ev'.started : id < runs[k].since
                /\ ev'.ended =>
                      \A id \in Range(fileQueue) :
                          id >= runs[k].since => items'[id].status = "pending"]_vars

----------------------------------------------------------------------------
(* The cancellation flag at the admission of a run (src/backend/app.js
   596-598, 961-990) *)

ResetOps == {"clearAll", "forceUnlock"}

\* C40: the admission of a run, POST /api/clear-queue and POST
\* /api/debug/reset-processing leave the cancellation flag false; a run
\* admitted with a pending file starts one whatever the flag was, and a run
\* that no POST /api/cancel-queue hit while it was active ends only when it
\* has handed every file of its pendingFiles to processSingleFile.
C40_CancelFlagReset ==
    [][/\ ev'.admitted =>
             /\ ~processingCancelled'
             /\ CountStatus(items, fileQueue, "pending") > 0 => ev'.started # {}
       /\ ev'.op \in ResetOps => ~processingCancelled'
       /\ \A k \in 1..Len(runs) :
             (Resumes(k) /\ ~runs[k].cancelReq /\ ev'.ended) =>
                 runs[k].pending = <<>>]_vars

\* C40 witness: the only run, admitted while the flag was set and with two
\* pending files, was not cancelled since; the pipeline of its first file has
\* ended and it awaits the second.
C40_Witness ==
    /\ Len(runs) = 1
    /\ runs[1].cancelledBefore
    /\ ~runs[1].cancelReq
    /\ runs[1].pc = "item"
    /\ runs[1].cur = 2
    /\ 1 \in DOMAIN items
    /\ items[1].status \in Terminal
    /\ ~processingCancelled

====
